---- MODULE Spec2Model ----
(***************************************************************************)
(* A model of go-todo: the todos HTTP handler (package todos, handler      *)
(* file) on top of the SQLite-backed DB (internal/todos/sqlite.go).        *)
(*                                                                         *)
(* The table todos is a set of rows.  Every DB method and every handler is *)
(* an operator computed the way the Go code computes it; the actions run   *)
(* requests through the ServeMux, one request per connection slot.         *)
(***************************************************************************)
EXTENDS Integers, Sequences, FiniteSets, TLC

(***************************************************************************)
(* Bounds of the model.                                                    *)
(***************************************************************************)
MaxID == 1

IDs == 0..MaxID

Strs == {"", "a"}

Procs == {"p1", "p2"}

GenIDs == {"r1", "r2"}

(***************************************************************************)
(* JSON values of a request body, one per key of the object.  A number is  *)
(* kept in halves (h = 2 * value) so that 1.5 is the number h = 3.         *)
(***************************************************************************)
JAbsent == [t |-> "absent", s |-> "", b |-> FALSE, h |-> 0]

JNull == [t |-> "null", s |-> "", b |-> FALSE, h |-> 0]

JStr(x) == [t |-> "string", s |-> x, b |-> FALSE, h |-> 0]

JBool(x) == [t |-> "boolean", s |-> "", b |-> x, h |-> 0]

JNum(x) == [t |-> "number", s |-> "", b |-> FALSE, h |-> x]

Keys == {"id", "title", "description", "completed"}

Obj(i, t, d, c) ==
    [wellFormed |-> TRUE, id |-> i, title |-> t, description |-> d, completed |-> c]

MalformedBody ==
    [wellFormed |-> FALSE, id |-> JAbsent, title |-> JAbsent,
     description |-> JAbsent, completed |-> JAbsent]

(***************************************************************************)
(* Go values.                                                              *)
(***************************************************************************)
\* type Todo struct
Todo(i, t, d, c) == [id |-> i, title |-> t, description |-> d, completed |-> c]

ZeroTodo == Todo(0, "", "", FALSE)

\* a *string / *bool field of TodoPatch: nil, or a pointer to the value v
NilString == [isNil |-> TRUE, v |-> ""]

NilBool == [isNil |-> TRUE, v |-> FALSE]

PtrTo(x) == [isNil |-> FALSE, v |-> x]

\* the dynamic Go value encoding/json stores in a map[string]any for a JSON
\* value: nil, float64, string or bool (absent: the key is not in the map)
GoAny(j) ==
    [j EXCEPT !.t = CASE j.t = "null" -> "nil"
                      [] j.t = "number" -> "float64"
                      [] j.t = "boolean" -> "bool"
                      [] OTHER -> j.t]

\* v.(T) on an interface value: ok only when the dynamic type is exactly T
TypeAssert(v, T) == v.t = T

\* a mutation of int(f): rounding to the nearest integer, halves up
IntOfFloatRounded(h) == (h + 1) \div 2

\* int(f) of a float64 kept in halves: truncation toward zero
IntOfFloat(h) == IF h >= 0 THEN h \div 2 ELSE -((-h) \div 2)

\* errors
NoError == [type |-> "nil", id |-> 0]

ErrNotFound(i) == [type |-> "ErrNotFound", id |-> i]

ErrNoFieldsToUpdate == [type |-> "ErrNoFieldsToUpdate", id |-> 0]

\* any error of database/sql or the driver (a cancelled context, an I/O error)
ErrDriver == [type |-> "driver", id |-> 0]

\* fmt.Sprintf / fmt.Errorf: the format and its arguments, printed (a format's
\* backquotes are written as apostrophes)
Msg(f, args) == [fmt |-> f, args |-> args]

NoMsg == Msg("", <<>>)

\* a mutation of ErrNotFound.Error: a text that does not name the id
ErrNotFoundErrorNoID(e) == Msg("todo not found", <<>>)

\* func (e ErrNotFound) Error() string
ErrNotFoundError(e) == Msg("todo '%d' not found", <<ToString(e.id)>>)

\* ErrNoFieldsToUpdate.Error()
ErrNoFieldsToUpdateError == Msg("no fields to update", <<>>)

(***************************************************************************)
(* SQLite: the table todos (id INTEGER PRIMARY KEY, title TEXT,            *)
(* description TEXT, completed BOOLEAN) and the statements of NewDB.       *)
(***************************************************************************)
\* a bound parameter: NULL, an INTEGER or a REAL (in halves)
SQLNull == [t |-> "null", h |-> 0]

SQLInt(i) == [t |-> "integer", h |-> 2 * i]

SQLReal(x) == [t |-> "real", h |-> x]

\* the driver binds a Go bool as the integer 1 or 0
BindBool(b) == IF b THEN 1 ELSE 0

\* Scan of the BOOLEAN column into a Go bool
ScanBool(n) == n = 1

\* WHERE id = ?: numeric comparison of the INTEGER column with the parameter
\* (NULL equals nothing)
WhereID(r, arg) == arg.t # "null" /\ 2 * r.id = arg.h

Stmt(name, cols, arg) == [stmt |-> name, cols |-> cols, arg |-> arg]

\* INSERT OR REPLACE INTO todos (id, title, description, completed) VALUES (?, ?, ?, ?)
stmtInsert(tbl, i, t, d, c) ==
    {r \in tbl : r.id # i} \cup {[id |-> i, title |-> t, description |-> d, completed |-> c]}

\* SELECT id, title, description, completed FROM todos WHERE id = ?
stmtGet(tbl, i) == {r \in tbl : WhereID(r, SQLInt(i))}

\* SELECT id, title, description, completed FROM todos (rowid order)
RECURSIVE stmtGetAll(_)
stmtGetAll(tbl) ==
    IF tbl = {} THEN <<>>
    ELSE LET first == CHOOSE r \in tbl : \A q \in tbl : r.id <= q.id
         IN <<first>> \o stmtGetAll(tbl \ {first})

\* DELETE FROM todos WHERE id = ?
stmtDelete(tbl, i) == {r \in tbl : ~WhereID(r, SQLInt(i))}

\* row.Scan(&todo.ID, &todo.Title, &todo.Description, &todo.Completed)
Scan(r) == Todo(r.id, r.title, r.description, ScanBool(r.completed))

(***************************************************************************)
(* The DB methods.  Each returns the table after the call, the error, the  *)
(* statements it issued and its value.  ctx is the request's context:      *)
(* a statement run under a cancelled context fails and changes nothing.    *)
(***************************************************************************)
Ctxs == {"live", "cancelled"}

Result(tbl, e, sql) ==
    [table |-> tbl, err |-> e, sql |-> sql, todo |-> {}, todos |-> <<>>, isNil |-> TRUE]

\* a mutation of Insert: an upsert that keeps the old row's fields where the
\* new Todo has the zero value
InsertMerging(tbl, ctx, todo) ==
    LET sql == <<Stmt("INSERT OR REPLACE", {}, SQLInt(todo.id))>>
        old == stmtGet(tbl, todo.id)
        merged(r) == stmtInsert(tbl, todo.id,
                                IF todo.title = "" THEN r.title ELSE todo.title,
                                IF todo.description = "" THEN r.description ELSE todo.description,
                                IF todo.completed THEN 1 ELSE r.completed)
    IN IF ctx = "cancelled" THEN Result(tbl, ErrDriver, sql)
       ELSE IF old = {}
            THEN Result(stmtInsert(tbl, todo.id, todo.title, todo.description,
                                   BindBool(todo.completed)), NoError, sql)
       ELSE Result(merged(CHOOSE r \in old : TRUE), NoError, sql)

\* a mutation of Insert: the description and the title bound in each other's place
InsertSwapped(tbl, ctx, todo) ==
    LET sql == <<Stmt("INSERT OR REPLACE", {}, SQLInt(todo.id))>>
    IN IF ctx = "cancelled" THEN Result(tbl, ErrDriver, sql)
       ELSE Result(stmtInsert(tbl, todo.id, todo.description, todo.title,
                              BindBool(todo.completed)), NoError, sql)

\* a mutation of Insert: a statement that fails after it wrote the row
InsertDirtyFailure(tbl, ctx, todo) ==
    LET sql == <<Stmt("INSERT OR REPLACE", {}, SQLInt(todo.id))>>
        written == stmtInsert(tbl, todo.id, todo.title, todo.description,
                              BindBool(todo.completed))
    IN IF ctx = "cancelled" THEN Result(written, ErrDriver, sql)
       ELSE Result(written, NoError, sql)

\* a mutation of Insert: a write that replaces the title only where a row
\* with the id exists
InsertTorn(tbl, ctx, todo) ==
    LET sql == <<Stmt("INSERT OR REPLACE", {}, SQLInt(todo.id))>>
        old == {r \in tbl : r.id = todo.id}
    IN IF ctx = "cancelled" THEN Result(tbl, ErrDriver, sql)
       ELSE IF old = {}
            THEN Result(stmtInsert(tbl, todo.id, todo.title, todo.description,
                                   BindBool(todo.completed)), NoError, sql)
       ELSE Result({IF r.id = todo.id THEN [r EXCEPT !.title = todo.title] ELSE r : r \in tbl},
                   NoError, sql)

\* a mutation of Insert: a plain INSERT, which fails on an id already stored
InsertNoReplace(tbl, ctx, todo) ==
    LET sql == <<Stmt("INSERT", {}, SQLInt(todo.id))>>
    IN IF ctx = "cancelled" THEN Result(tbl, ErrDriver, sql)
       ELSE IF {r \in tbl : r.id = todo.id} # {} THEN Result(tbl, ErrDriver, sql)
       ELSE Result(stmtInsert(tbl, todo.id, todo.title, todo.description,
                              BindBool(todo.completed)), NoError, sql)

\* func (t *DB) Insert(ctx context.Context, todo Todo) error
Insert(tbl, ctx, todo) ==
    LET sql == <<Stmt("INSERT OR REPLACE", {}, SQLInt(todo.id))>>
    IN IF ctx = "cancelled" THEN Result(tbl, ErrDriver, sql)
       ELSE Result(stmtInsert(tbl, todo.id, todo.title, todo.description,
                              BindBool(todo.completed)), NoError, sql)

\* a mutation of Delete: an error when the statement deleted no row
DeleteStrict(tbl, ctx, i) ==
    LET sql == <<Stmt("DELETE", {}, SQLInt(i))>>
    IN IF ctx = "cancelled" THEN Result(tbl, ErrDriver, sql)
       ELSE IF stmtGet(tbl, i) = {} THEN Result(tbl, ErrNotFound(i), sql)
       ELSE Result(stmtDelete(tbl, i), NoError, sql)

\* a mutation of Delete: a statement that failed is issued a second time
DeleteRetry(tbl, ctx, i) ==
    LET stmt == Stmt("DELETE", {}, SQLInt(i))
    IN IF ctx = "cancelled" THEN Result(stmtDelete(tbl, i), NoError, <<stmt, stmt>>)
       ELSE Result(stmtDelete(tbl, i), NoError, <<stmt>>)

\* func (t *DB) Delete(ctx context.Context, id int) error
Delete(tbl, ctx, i) ==
    LET sql == <<Stmt("DELETE", {}, SQLInt(i))>>
    IN IF ctx = "cancelled" THEN Result(tbl, ErrDriver, sql)
       ELSE Result(stmtDelete(tbl, i), NoError, sql)

\* a mutation of Get: ErrNotFound{} without the id
GetZeroID(tbl, ctx, i) ==
    LET sql == <<Stmt("SELECT", {}, SQLInt(i))>>
        found == stmtGet(tbl, i)
    IN IF ctx = "cancelled" THEN Result(tbl, ErrDriver, sql)
       ELSE IF found = {} THEN Result(tbl, ErrNotFound(0), sql)
       ELSE [Result(tbl, NoError, sql) EXCEPT !.todo = {Scan(r) : r \in found},
                                              !.isNil = FALSE]

\* func (t *DB) Get(ctx context.Context, id int) (*Todo, error)
Get(tbl, ctx, i) ==
    LET sql == <<Stmt("SELECT", {}, SQLInt(i))>>
        found == stmtGet(tbl, i)
    IN IF ctx = "cancelled" THEN Result(tbl, ErrDriver, sql)
       ELSE IF found = {} THEN Result(tbl, ErrNotFound(i), sql)
       ELSE [Result(tbl, NoError, sql) EXCEPT !.todo = {Scan(r) : r \in found},
                                              !.isNil = FALSE]

\* a mutation of GetAll: a query that stops after the first row
GetAllFirst(tbl, ctx) ==
    LET sql == <<Stmt("SELECT ALL", {}, SQLNull)>>
        scanned == stmtGetAll(tbl)
    IN IF ctx = "cancelled" THEN Result(tbl, ErrDriver, sql)
       ELSE [Result(tbl, NoError, sql) EXCEPT
                !.todos = IF Len(scanned) = 0 THEN <<>> ELSE <<Scan(scanned[1])>>,
                !.isNil = (Len(scanned) = 0)]

\* func (t *DB) GetAll(ctx context.Context) ([]Todo, error)
GetAll(tbl, ctx) ==
    LET sql == <<Stmt("SELECT ALL", {}, SQLNull)>>
        scanned == stmtGetAll(tbl)
    IN IF ctx = "cancelled" THEN Result(tbl, ErrDriver, sql)
       ELSE [Result(tbl, NoError, sql) EXCEPT
                !.todos = [k \in 1..Len(scanned) |-> Scan(scanned[k])],
                !.isNil = (Len(scanned) = 0)]

\* database/sql's conversion of the argument patch.data["id"]
ArgOfAny(v) == IF v.t = "float64" THEN SQLReal(v.h) ELSE SQLNull

\* the columns Patch writes into the SET clause: the non-nil fields
SetClause(patch) ==
    (IF ~patch.Title.isNil THEN {"title"} ELSE {})
    \cup (IF ~patch.Description.isNil THEN {"description"} ELSE {})
    \cup (IF ~patch.Completed.isNil THEN {"completed"} ELSE {})

\* a mutation of stmtUpdate: an UPDATE without its WHERE clause
stmtUpdateAll(tbl, cols, patch, arg) ==
    {[r EXCEPT !.title = IF "title" \in cols THEN patch.Title.v ELSE @,
               !.description = IF "description" \in cols THEN patch.Description.v ELSE @,
               !.completed = IF "completed" \in cols THEN BindBool(patch.Completed.v) ELSE @] :
        r \in tbl}

\* UPDATE todos SET <cols> WHERE id = ?
stmtUpdate(tbl, cols, patch, arg) ==
    LET upd(r) == [r EXCEPT
                     !.title = IF "title" \in cols THEN patch.Title.v ELSE @,
                     !.description = IF "description" \in cols THEN patch.Description.v ELSE @,
                     !.completed = IF "completed" \in cols THEN BindBool(patch.Completed.v) ELSE @]
    IN {IF WhereID(r, arg) THEN upd(r) ELSE r : r \in tbl}

\* a mutation of Patch: no check for an empty SET clause, so the statement
\* "UPDATE todos SET WHERE id = ?" is prepared and fails
PatchNoFieldCheck(tbl, ctx, patch) ==
    LET cols == SetClause(patch)
        arg == ArgOfAny(patch.data["id"])
        sql == <<Stmt("UPDATE", cols, arg)>>
    IN IF cols = {} \/ ctx = "cancelled" THEN Result(tbl, ErrDriver, sql)
       ELSE Result(stmtUpdate(tbl, cols, patch, arg), NoError, sql)

\* a mutation of Patch: an upsert, which inserts the row when none matches
PatchUpsert(tbl, ctx, patch) ==
    LET cols == SetClause(patch)
        arg == ArgOfAny(patch.data["id"])
        sql == <<Stmt("UPDATE", cols, arg)>>
    IN IF cols = {} THEN Result(tbl, ErrNoFieldsToUpdate, <<>>)
       ELSE IF ctx = "cancelled" THEN Result(tbl, ErrDriver, sql)
       ELSE IF \E r \in tbl : WhereID(r, arg)
            THEN Result(stmtUpdate(tbl, cols, patch, arg), NoError, sql)
       ELSE Result(stmtInsert(tbl, patch.ID, patch.Title.v, patch.Description.v,
                              BindBool(patch.Completed.v)), NoError, sql)

\* func (t *DB) Patch(ctx context.Context, patch TodoPatch) error
Patch(tbl, ctx, patch) ==
    LET cols == SetClause(patch)
        arg == ArgOfAny(patch.data["id"])
        sql == <<Stmt("UPDATE", cols, arg)>>
    IN IF cols = {} THEN Result(tbl, ErrNoFieldsToUpdate, <<>>)
       ELSE IF ctx = "cancelled" THEN Result(tbl, ErrDriver, sql)
       ELSE Result(stmtUpdate(tbl, cols, patch, arg), NoError, sql)

(***************************************************************************)
(* The partial-update decoder.                                             *)
(***************************************************************************)
\* func NewTodoPatch() TodoPatch
NewTodoPatch ==
    [data |-> [k \in Keys |-> GoAny(JAbsent)], ID |-> 0,
     Title |-> NilString, Description |-> NilString, Completed |-> NilBool]

Decoded(e, v) == [err |-> e, ptr |-> v]

\* a mutation of PatchString: a decoder that takes a value of any type for
\* the key and stores the empty string for what is not a string
PatchStringLax(v, name) ==
    IF v.t = "absent" THEN Decoded(NoMsg, NilString)
    ELSE Decoded(NoMsg, PtrTo(""))

\* the title and the description key: absent, null, or title.(*string)
PatchString(v, name) ==
    IF v.t = "absent" THEN Decoded(NoMsg, NilString)
    ELSE IF v.t = "nil" THEN Decoded(NoMsg, PtrTo(""))
    ELSE IF TypeAssert(v, "*string") THEN Decoded(NoMsg, PtrTo(v.s))
    ELSE Decoded(Msg("%s is not a string", <<name>>), NilString)

\* the completed key: absent, null, or completed.(*bool)
PatchBool(v) ==
    IF v.t = "absent" THEN Decoded(NoMsg, NilBool)
    ELSE IF v.t = "nil" THEN Decoded(NoMsg, PtrTo(FALSE))
    ELSE IF TypeAssert(v, "*bool") THEN Decoded(NoMsg, PtrTo(v.b))
    ELSE Decoded(Msg("completed is not a boolean", <<>>), NilBool)

\* the id key: absent, null, or ID.(float64) and int(floatID)
PatchID(v) ==
    IF v.t = "absent" THEN [err |-> NoMsg, id |-> 0]
    ELSE IF v.t = "nil" THEN [err |-> Msg("id is required", <<>>), id |-> 0]
    ELSE IF ~TypeAssert(v, "float64") THEN [err |-> Msg("id is not a float64", <<>>), id |-> 0]
    ELSE [err |-> NoMsg, id |-> IntOfFloat(v.h)]

\* func (tp *TodoPatch) UnmarshalJSON(b []byte) error
UnmarshalJSON(b) ==
    LET data == [k \in Keys |-> GoAny(b[k])]
        tp == [NewTodoPatch EXCEPT !.data = data]
        i == PatchID(data["id"])
        t == PatchString(data["title"], "title")
        d == PatchString(data["description"], "description")
        c == PatchBool(data["completed"])
    IN IF ~b.wellFormed THEN [err |-> Msg("json: syntax error", <<>>), patch |-> NewTodoPatch]
       ELSE IF i.err # NoMsg THEN [err |-> i.err, patch |-> tp]
       ELSE IF t.err # NoMsg THEN [err |-> t.err, patch |-> [tp EXCEPT !.ID = i.id]]
       ELSE IF d.err # NoMsg
            THEN [err |-> d.err, patch |-> [tp EXCEPT !.ID = i.id, !.Title = t.ptr]]
       ELSE IF c.err # NoMsg
            THEN [err |-> c.err,
                  patch |-> [tp EXCEPT !.ID = i.id, !.Title = t.ptr, !.Description = d.ptr]]
       ELSE [err |-> NoMsg,
             patch |-> [tp EXCEPT !.ID = i.id, !.Title = t.ptr,
                                  !.Description = d.ptr, !.Completed = c.ptr]]

\* json.NewDecoder(r.Body).Decode(&todo) into a Todo{}: a null or absent key
\* leaves the zero value, an int field takes an integer literal only
DecodeTodo(b) ==
    LET idOK == b.id.t \in {"absent", "null"} \/ (b.id.t = "number" /\ b.id.h % 2 = 0)
        strOK(v) == v.t \in {"absent", "null", "string"}
        boolOK(v) == v.t \in {"absent", "null", "boolean"}
    IN IF b.wellFormed /\ idOK /\ strOK(b.title) /\ strOK(b.description) /\ boolOK(b.completed)
       THEN [err |-> FALSE,
             todo |-> Todo(IF b.id.t = "number" THEN b.id.h \div 2 ELSE 0,
                           IF b.title.t = "string" THEN b.title.s ELSE "",
                           IF b.description.t = "string" THEN b.description.s ELSE "",
                           IF b.completed.t = "boolean" THEN b.completed.b ELSE FALSE)]
       ELSE [err |-> TRUE, todo |-> ZeroTodo]

(***************************************************************************)
(* The HTTP handler.                                                       *)
(***************************************************************************)
headerContentType == "Content-Type"

valueContentTypeJSON == "application/json"

NoHeader == "(unset)"

\* a request: the ServeMux pattern it matches, the raw {id} path value, the
\* Content-Type header and the body
Request(m, pat, raw, ct, b) ==
    [method |-> m, pattern |-> pat, rawID |-> raw, contentType |-> ct, body |-> b]

\* r.URL.Path
URLPath(r) == <<r.pattern, r.rawID>>

\* the body of a response: empty, the text line of http.Error, or the JSON
\* encoding of a *Todo ("object") or of a []Todo ("array", "null" for nil)
BodyOf(kind, msg, data) == [kind |-> kind, msg |-> msg, data |-> data]

Response(code, body, ct, rid) ==
    [status |-> code, body |-> body, contentType |-> ct, xRequestID |-> rid]

\* a handler that returns without writing: net/http answers 200, empty body
Implicit200 == Response(200, BodyOf("empty", NoMsg, <<>>), NoHeader, NoHeader)

\* http.Error(w, msg, code)
HTTPError(msg, code) ==
    Response(code, BodyOf("text", msg, <<>>), "text/plain; charset=utf-8", NoHeader)

\* http.StatusText(http.StatusInternalServerError)
StatusText500 == Msg("Internal Server Error", <<>>)

\* the DB method a handler invoked, with its arguments and its result
NoCall ==
    [method |-> "none", id |-> 0, todo |-> ZeroTodo, patch |-> NewTodoPatch,
     err |-> NoError, sql |-> <<>>]

Call(m, i, todo, patch, res) ==
    [method |-> m, id |-> i, todo |-> todo, patch |-> patch, err |-> res.err, sql |-> res.sql]

LogEntry(level, msg, r, rid, e) ==
    [level |-> level, msg |-> msg, method |-> r.method, path |-> URLPath(r),
     requestID |-> rid, err |-> e]

\* func (h *Handler) logError(r *http.Request, message string, err error)
logError(r, rid, message, e) == LogEntry("ERROR", message, r, rid, e)

\* what a handler did: the table after it, its response, its DB call, its log
Outcome(tbl, resp, call, log) == [table |-> tbl, resp |-> resp, call |-> call, log |-> log]

\* a mutation of InternalError: the error's own text in the body, nothing
\* logged
InternalErrorLeaky(tbl, r, rid, call) ==
    Outcome(tbl, HTTPError(Msg("%v", <<call.err.type>>), 500), call, <<>>)

\* the generic 500 of every handler: logError, then http.Error with the phrase
InternalError(tbl, r, rid, call) ==
    Outcome(tbl, HTTPError(StatusText500, 500), call,
            <<logError(r, rid, StatusText500, call.err)>>)

\* strconv.Atoi on the raw path values the model sends
Atoi(raw) ==
    IF \E i \in IDs : ToString(i) = raw
    THEN [ok |-> TRUE, id |-> CHOOSE i \in IDs : ToString(i) = raw]
    ELSE [ok |-> FALSE, id |-> 0]

\* a mutation of fromPathTodoID: a path value that does not parse is the id 0
fromPathTodoIDLax(r) == [err |-> NoMsg, id |-> Atoi(r.rawID).id]

\* func fromPathTodoID(r *http.Request) (int, error)
fromPathTodoID(r) ==
    LET a == Atoi(r.rawID)
    IN IF a.ok THEN [err |-> NoMsg, id |-> a.id]
       ELSE [err |-> Msg("invalid id: '%s'", <<r.rawID>>), id |-> 0]

\* a mutation of assertHeaderValueIs: a check of the media type only, which
\* lets parameters after it pass
assertHeaderMediaType(r, header, value) ==
    IF r.contentType \notin {value, "application/json; charset=utf-8"}
    THEN Msg("invalid header '%s' value: got '%s', use '%s'", <<header, r.contentType, value>>)
    ELSE NoMsg

\* func assertHeaderValueIs(r *http.Request, header string, value string) error
assertHeaderValueIs(r, header, value) ==
    IF r.contentType # value
    THEN Msg("invalid header '%s' value: got '%s', use '%s'", <<header, r.contentType, value>>)
    ELSE NoMsg

mismatch(pathID, bodyID) ==
    Msg("id in path '%d' and body '%d' do not match", <<ToString(pathID), ToString(bodyID)>>)

\* func health(_ http.ResponseWriter, _ *http.Request) {}
health(tbl, r, rid, ctx) == Outcome(tbl, Implicit200, NoCall, <<>>)

\* a mutation of writeJSON: the header taken from one place shared by all
\* requests instead of the request's context
writeJSONShared(rid, kind, data) ==
    Response(200, BodyOf(kind, NoMsg, data), valueContentTypeJSON, "r1")

\* func (h *Handler) writeJSON(w http.ResponseWriter, r *http.Request, data any)
writeJSON(rid, kind, data) ==
    Response(200, BodyOf(kind, NoMsg, data), valueContentTypeJSON, rid)

\* func (h *Handler) delete(w http.ResponseWriter, r *http.Request)
delete(tbl, r, rid, ctx) ==
    LET p == fromPathTodoID(r)
        res == Delete(tbl, ctx, p.id)
        call == Call("Delete", p.id, ZeroTodo, NewTodoPatch, res)
    IN IF p.err # NoMsg THEN Outcome(tbl, HTTPError(p.err, 400), NoCall, <<>>)
       ELSE IF res.err # NoError THEN InternalError(res.table, r, rid, call)
       ELSE Outcome(res.table, Implicit200, call, <<>>)

\* a mutation of patch: the path id parsed before the Content-Type is checked
patchPathFirst(tbl, r, rid, ctx) ==
    LET h == assertHeaderValueIs(r, headerContentType, valueContentTypeJSON)
        p == fromPathTodoID(r)
        dec == UnmarshalJSON(r.body)
        res == Patch(tbl, ctx, dec.patch)
        call == Call("Patch", dec.patch.ID, ZeroTodo, dec.patch, res)
    IN IF p.err # NoMsg THEN Outcome(tbl, HTTPError(p.err, 400), NoCall, <<>>)
       ELSE IF h # NoMsg THEN Outcome(tbl, HTTPError(h, 400), NoCall, <<>>)
       ELSE IF dec.err # NoMsg THEN Outcome(tbl, HTTPError(dec.err, 400), NoCall, <<>>)
       ELSE IF p.id # dec.patch.ID
            THEN Outcome(tbl, HTTPError(mismatch(p.id, dec.patch.ID), 400), NoCall, <<>>)
       ELSE IF res.err = ErrNoFieldsToUpdate
            THEN Outcome(res.table, HTTPError(ErrNoFieldsToUpdateError, 400), call, <<>>)
       ELSE IF res.err # NoError THEN InternalError(res.table, r, rid, call)
       ELSE Outcome(res.table, Implicit200, call, <<>>)

\* func (h *Handler) patch(w http.ResponseWriter, r *http.Request)
patch(tbl, r, rid, ctx) ==
    LET h == assertHeaderValueIs(r, headerContentType, valueContentTypeJSON)
        p == fromPathTodoID(r)
        dec == UnmarshalJSON(r.body)
        res == Patch(tbl, ctx, dec.patch)
        call == Call("Patch", dec.patch.ID, ZeroTodo, dec.patch, res)
    IN IF h # NoMsg THEN Outcome(tbl, HTTPError(h, 400), NoCall, <<>>)
       ELSE IF p.err # NoMsg THEN Outcome(tbl, HTTPError(p.err, 400), NoCall, <<>>)
       ELSE IF dec.err # NoMsg THEN Outcome(tbl, HTTPError(dec.err, 400), NoCall, <<>>)
       ELSE IF p.id # dec.patch.ID
            THEN Outcome(tbl, HTTPError(mismatch(p.id, dec.patch.ID), 400), NoCall, <<>>)
       ELSE IF res.err = ErrNoFieldsToUpdate
            THEN Outcome(res.table, HTTPError(ErrNoFieldsToUpdateError, 400), call, <<>>)
       ELSE IF res.err # NoError THEN InternalError(res.table, r, rid, call)
       ELSE Outcome(res.table, Implicit200, call, <<>>)

\* a mutation of insert: a handler that does not compare the path id with
\* the body id and stores the body under its own id
insertNoIDCheck(tbl, r, rid, ctx) ==
    LET h == assertHeaderValueIs(r, headerContentType, valueContentTypeJSON)
        p == fromPathTodoID(r)
        dec == DecodeTodo(r.body)
        res == Insert(tbl, ctx, dec.todo)
        call == Call("Insert", dec.todo.id, dec.todo, NewTodoPatch, res)
    IN IF h # NoMsg THEN Outcome(tbl, HTTPError(h, 400), NoCall, <<>>)
       ELSE IF p.err # NoMsg THEN Outcome(tbl, HTTPError(p.err, 400), NoCall, <<>>)
       ELSE IF dec.err
            THEN Outcome(tbl, HTTPError(Msg("failed to decode todo body", <<>>), 400),
                         NoCall, <<>>)
       ELSE IF res.err # NoError THEN InternalError(res.table, r, rid, call)
       ELSE Outcome(res.table, Implicit200, call, <<>>)

\* func (h *Handler) insert(w http.ResponseWriter, r *http.Request)
insert(tbl, r, rid, ctx) ==
    LET h == assertHeaderValueIs(r, headerContentType, valueContentTypeJSON)
        p == fromPathTodoID(r)
        dec == DecodeTodo(r.body)
        res == Insert(tbl, ctx, dec.todo)
        call == Call("Insert", dec.todo.id, dec.todo, NewTodoPatch, res)
    IN IF h # NoMsg THEN Outcome(tbl, HTTPError(h, 400), NoCall, <<>>)
       ELSE IF p.err # NoMsg THEN Outcome(tbl, HTTPError(p.err, 400), NoCall, <<>>)
       ELSE IF dec.err
            THEN Outcome(tbl, HTTPError(Msg("failed to decode todo body", <<>>), 400),
                         NoCall, <<>>)
       ELSE IF p.id # dec.todo.id
            THEN Outcome(tbl, HTTPError(mismatch(p.id, dec.todo.id), 400), NoCall, <<>>)
       ELSE IF res.err # NoError THEN InternalError(res.table, r, rid, call)
       ELSE Outcome(res.table, Implicit200, call, <<>>)

\* func (h *Handler) getAll(w http.ResponseWriter, r *http.Request)
getAll(tbl, r, rid, ctx) ==
    LET res == GetAll(tbl, ctx)
        call == Call("GetAll", 0, ZeroTodo, NewTodoPatch, res)
    IN IF res.err # NoError THEN InternalError(res.table, r, rid, call)
       ELSE Outcome(res.table,
                    writeJSON(rid, IF res.isNil THEN "null" ELSE "array", res.todos),
                    call, <<>>)

\* func (h *Handler) get(w http.ResponseWriter, r *http.Request)
get(tbl, r, rid, ctx) ==
    LET p == fromPathTodoID(r)
        res == Get(tbl, ctx, p.id)
        call == Call("Get", p.id, ZeroTodo, NewTodoPatch, res)
    IN IF p.err # NoMsg THEN Outcome(tbl, HTTPError(p.err, 400), NoCall, <<>>)
       ELSE IF res.err.type = "ErrNotFound"
            THEN Outcome(res.table, HTTPError(ErrNotFoundError(res.err), 404), call, <<>>)
       ELSE IF res.err # NoError THEN InternalError(res.table, r, rid, call)
       ELSE Outcome(res.table,
                    writeJSON(rid, "object", <<CHOOSE t \in res.todo : TRUE>>),
                    call, <<>>)

\* a mutation of Routed: every route wrapped in the middleware
RoutedAll(r) == TRUE

\* the routes of FromConfig wrapped in withBaseMiddleware (all but GET /health)
Routed(r) == r.pattern # "/health"

\* a mutation of withBaseMiddleware: the logging wrapped around the id
\* assignment, the entry written before an id is generated
withLoggingThenRequestID(r, gen) ==
    IF Routed(r) THEN [requestID |-> gen, log |-> <<LogEntry("INFO", NoMsg, r, NoHeader, NoError)>>]
    ELSE [requestID |-> NoHeader, log |-> <<>>]

\* withRequestID, then withLoggingMethod: the id put in the request's context
\* and the log entry written before the handler runs
withBaseMiddleware(r, gen) ==
    IF Routed(r) THEN [requestID |-> gen, log |-> <<LogEntry("INFO", NoMsg, r, gen, NoError)>>]
    ELSE [requestID |-> NoHeader, log |-> <<>>]

\* the handler FromConfig registers for the request's method and pattern
Dispatch(tbl, r, rid, ctx) ==
    CASE r.pattern = "/health" -> health(tbl, r, rid, ctx)
      [] r.pattern = "/todos" -> getAll(tbl, r, rid, ctx)
      [] r.method = "GET" -> get(tbl, r, rid, ctx)
      [] r.method = "PUT" -> insert(tbl, r, rid, ctx)
      [] r.method = "PATCH" -> patch(tbl, r, rid, ctx)
      [] OTHER -> delete(tbl, r, rid, ctx)

\* func (h *Handler) ServeHTTP: the middleware, then the handler
ServeHTTP(tbl, r, gen, ctx) ==
    LET mw == withBaseMiddleware(r, gen)
        o == Dispatch(tbl, r, mw.requestID, ctx)
    IN [o EXCEPT !.log = mw.log \o o.log]

(***************************************************************************)
(* The requests of the model.  The id MaxID is addressed with every body   *)
(* of PutBodies and PatchBodies, the ids below it with a few.              *)
(***************************************************************************)
RawIDs == {ToString(i) : i \in IDs} \cup {"x"}

GoodRawIDs == {ToString(i) : i \in IDs}

BadContentTypes == {"", "application/json; charset=utf-8"}

\* the values of the id key of a body: the integers of IDs, and the others
IntIDValues == {JNum(2 * i) : i \in IDs}

FractionIDValues == {JNum(x) : x \in {y \in (-1)..(2 * MaxID + 1) : y % 2 = 1}}

OtherIDValues == {JAbsent, JNull, JStr("a")} \cup FractionIDValues

\* PATCH bodies for the path id i: every combination of absent, null and a
\* value with the matching id, fewer with any other id, and the ill-typed
PatchBodies(i) ==
    {Obj(JNum(2 * i), t, d, c) : t \in {JAbsent, JNull, JStr("a")},
                                 d \in {JAbsent, JNull, JStr("a")},
                                 c \in {JAbsent, JNull, JBool(TRUE)}}
    \cup {Obj(v, JAbsent, d, c) : v \in IntIDValues \cup OtherIDValues,
                                  d \in {JAbsent, JNull}, c \in {JAbsent, JNull}}
    \cup {Obj(JNum(2 * i), JNum(2), JNull, JNull),
          Obj(JNum(2 * i), JNull, JBool(TRUE), JNull),
          Obj(JNum(2 * i), JNull, JNull, JStr("a")),
          MalformedBody}

\* PUT bodies for the path id i
PutBodies(i) ==
    {Obj(JNum(2 * i), t, d, c) : t \in {JAbsent, JStr("a")}, d \in {JAbsent, JStr("a")},
                                 c \in {JAbsent, JBool(TRUE)}}
    \cup {Obj(v, JStr("a"), JStr("a"), JBool(TRUE)) : v \in IntIDValues \cup OtherIDValues}
    \cup {Obj(JNum(2 * i), JNull, JNull, JNull),
          Obj(JNum(2 * i), JStr(""), JStr("a"), JBool(FALSE)),
          Obj(JNum(2 * i), JNum(2), JStr("a"), JBool(TRUE)),
          Obj(JNum(2 * i), JStr("a"), JStr("a"), JStr("a")),
          MalformedBody}

\* the bodies sent to a path id i below MaxID: those that store a row, change
\* it, leave it, are refused, and name another id, a fractional id or none
FewPutBodies(i) ==
    {Obj(JNum(2 * i), JStr("a"), JStr("a"), JBool(TRUE)),
     Obj(JNum(2 * i), JAbsent, JStr("a"), JAbsent),
     Obj(JNum(2 * MaxID), JStr("a"), JStr("a"), JBool(TRUE)),
     Obj(JNum(2 * i + 1), JStr("a"), JStr("a"), JBool(TRUE)),
     MalformedBody}

FewPatchBodies(i) ==
    {Obj(JNum(2 * i), JNull, JAbsent, JAbsent),
     Obj(JNum(2 * i), JAbsent, JAbsent, JAbsent),
     Obj(JNum(2 * i), JStr("a"), JAbsent, JAbsent),
     Obj(JNum(2 * MaxID), JNull, JAbsent, JAbsent),
     Obj(JNum(2 * i + 1), JNull, JAbsent, JAbsent),
     Obj(JAbsent, JNull, JAbsent, JAbsent),
     Obj(JAbsent, JAbsent, JAbsent, JAbsent)}

\* the bodies sent with a wrong Content-Type or an unparsable path id
EnvelopeBodies == {Obj(JNum(2 * MaxID), JNull, JNull, JNull), MalformedBody}

BadEnvelopes ==
    {<<ct, raw>> : ct \in BadContentTypes, raw \in RawIDs}
    \cup {<<valueContentTypeJSON, "x">>}

Requests ==
    {Request("GET", "/health", "", "", MalformedBody),
     Request("GET", "/todos", "", "", MalformedBody)}
    \cup {Request(m, "/todos/{id}", raw, "", MalformedBody) : m \in {"GET", "DELETE"}, raw \in RawIDs}
    \cup UNION {{Request("PUT", "/todos/{id}", ToString(i), valueContentTypeJSON, b) :
                    b \in IF i = MaxID THEN PutBodies(i) ELSE FewPutBodies(i)} : i \in IDs}
    \cup UNION {{Request("PATCH", "/todos/{id}", ToString(i), valueContentTypeJSON, b) :
                    b \in IF i = MaxID THEN PatchBodies(i) ELSE FewPatchBodies(i)} : i \in IDs}
    \cup {Request(m, "/todos/{id}", e[2], e[1], b) :
             m \in {"PUT", "PATCH"}, e \in BadEnvelopes, b \in EnvelopeBodies}

\* the requests of the concurrent specification: writes and reads of one id
ConcRequests ==
    {Request("PUT", "/todos/{id}", ToString(MaxID), valueContentTypeJSON,
             Obj(JNum(2 * MaxID), JStr("a"), JAbsent, JBool(TRUE))),
     Request("PUT", "/todos/{id}", ToString(MaxID), valueContentTypeJSON,
             Obj(JNum(2 * MaxID), JAbsent, JStr("a"), JAbsent)),
     Request("PATCH", "/todos/{id}", ToString(MaxID), valueContentTypeJSON,
             Obj(JNum(2 * MaxID), JNull, JAbsent, JAbsent)),
     Request("PATCH", "/todos/{id}", ToString(MaxID), valueContentTypeJSON,
             Obj(JNum(2 * MaxID), JAbsent, JNull, JNull)),
     Request("PATCH", "/todos/{id}", ToString(MaxID), valueContentTypeJSON,
             Obj(JNum(2 * MaxID + 1), JAbsent, JNull, JAbsent)),
     Request("PATCH", "/todos/{id}", "0", valueContentTypeJSON,
             Obj(JAbsent, JNull, JAbsent, JAbsent)),
     Request("DELETE", "/todos/{id}", ToString(MaxID), "", MalformedBody),
     Request("GET", "/todos/{id}", ToString(MaxID), "", MalformedBody)}

NoRequest == Request("", "", "", "", MalformedBody)

NoResponse == Response(0, BodyOf("empty", NoMsg, <<>>), NoHeader, NoHeader)

(***************************************************************************)
(* State.                                                                  *)
(***************************************************************************)
VARIABLES
    rows,    \* the table todos: a set of rows
    before,  \* per connection: the table as its handler found it (history)
    pc,      \* per connection: "idle", "accepted" (middleware ran) or "done"
    req,     \* per connection: the request it serves
    reqID,   \* per connection: the correlation id in the request's context
    resp,    \* per connection: the response written
    call,    \* per connection: the DB method the handler invoked
    log      \* per connection: the log entries of the request

vars == <<rows, before, pc, req, reqID, resp, call, log>>

Init ==
    /\ rows = {}
    /\ before = [p \in Procs |-> {}]
    /\ pc = [p \in Procs |-> "idle"]
    /\ req = [p \in Procs |-> NoRequest]
    /\ reqID = [p \in Procs |-> NoHeader]
    /\ resp = [p \in Procs |-> NoResponse]
    /\ call = [p \in Procs |-> NoCall]
    /\ log = [p \in Procs |-> <<>>]

\* a whole request served on connection p: middleware, handler, response
Serve(p) ==
    /\ pc[p] = "idle"
    /\ \E r \in Requests, g \in GenIDs, c \in Ctxs :
         LET mw == withBaseMiddleware(r, g)
             o == ServeHTTP(rows, r, g, c)
         IN /\ rows' = o.table
            /\ before' = [before EXCEPT ![p] = rows]
            /\ pc' = [pc EXCEPT ![p] = "done"]
            /\ req' = [req EXCEPT ![p] = r]
            /\ reqID' = [reqID EXCEPT ![p] = mw.requestID]
            /\ resp' = [resp EXCEPT ![p] = o.resp]
            /\ call' = [call EXCEPT ![p] = o.call]
            /\ log' = [log EXCEPT ![p] = o.log]

\* the middleware of a request accepted on connection p
Accept(p) ==
    /\ pc[p] = "idle"
    /\ \E r \in ConcRequests, g \in GenIDs :
         LET mw == withBaseMiddleware(r, g)
         IN /\ pc' = [pc EXCEPT ![p] = "accepted"]
            /\ req' = [req EXCEPT ![p] = r]
            /\ reqID' = [reqID EXCEPT ![p] = mw.requestID]
            /\ log' = [log EXCEPT ![p] = mw.log]
            /\ UNCHANGED <<rows, before, resp, call>>

\* the handler of the request accepted on connection p: its validation, its
\* one statement and its response
Handle(p) ==
    /\ pc[p] = "accepted"
    /\ LET o == Dispatch(rows, req[p], reqID[p], "live")
       IN /\ rows' = o.table
          /\ before' = [before EXCEPT ![p] = rows]
          /\ pc' = [pc EXCEPT ![p] = "done"]
          /\ resp' = [resp EXCEPT ![p] = o.resp]
          /\ call' = [call EXCEPT ![p] = o.call]
          /\ log' = [log EXCEPT ![p] = @ \o o.log]
          /\ UNCHANGED <<req, reqID>>

\* the connection is done with its request
Finish(p) ==
    /\ pc[p] = "done"
    /\ pc' = [pc EXCEPT ![p] = "idle"]
    /\ req' = [req EXCEPT ![p] = NoRequest]
    /\ reqID' = [reqID EXCEPT ![p] = NoHeader]
    /\ resp' = [resp EXCEPT ![p] = NoResponse]
    /\ call' = [call EXCEPT ![p] = NoCall]
    /\ log' = [log EXCEPT ![p] = <<>>]
    /\ before' = [before EXCEPT ![p] = {}]
    /\ UNCHANGED rows

\* one request at a time
Next == Serve("p1") \/ Finish("p1")

Spec == Init /\ [][Next]_vars

\* requests in flight on every connection
NextConc == \E p \in Procs : Accept(p) \/ Handle(p) \/ Finish(p)

SpecConc == Init /\ [][NextConc]_vars

(***************************************************************************)
(* Properties.  In Spec one connection serves one request at a time, so    *)
(* while it is done, before[p] is the table before the request and rows    *)
(* the table after it.                                                     *)
(***************************************************************************)
Done(p) == pc[p] = "done"

\* the handler of p invoked the DB method m, which returned without error
Returned(p, m) == Done(p) /\ call[p].method = m /\ call[p].err = NoError

\* the DB method of p ran its statement (no failure of the driver)
Ran(p, m) == Done(p) /\ call[p].method = m /\ call[p].err # ErrDriver

\* the rows of a table with the id i, and the Todos they hold
RowAt(tbl, i) == {r \in tbl : r.id = i}

TodosAt(tbl, i) == {Todo(r.id, r.title, r.description, r.completed = 1) : r \in RowAt(tbl, i)}

\* the request of p wrote to the id i: an Insert, Delete or Patch addressed
\* to i returned without error
WrittenBy(p, i) ==
    /\ call[p].id = i
    /\ Returned(p, "Insert") \/ Returned(p, "Delete") \/ Returned(p, "Patch")

\* what Get(id) returns: its error and its Todo
GetValue(tbl, i) == LET g == Get(tbl, "live", i) IN <<g.err, g.todo>>

\* C1: after Insert(t) returns, Get(t.id) returns t without error, whatever
\* the table held before; and a request that writes nothing to an id leaves
\* what Get returns for that id as it was, so the Todo is read back until the
\* next write to t.id.
C1_RoundTrip ==
    \A p \in Procs :
        /\ Returned(p, "Insert") =>
              GetValue(rows, call[p].todo.id) = <<NoError, {call[p].todo}>>
        /\ Done(p) =>
              \A i \in IDs : ~WrittenBy(p, i) => GetValue(rows, i) = GetValue(before[p], i)

C1_Witness ==
    \E p \in Procs :
        /\ Returned(p, "Insert")
        /\ call[p].todo = Todo(MaxID, "a", "", TRUE)
        /\ TodosAt(before[p], MaxID) = {Todo(MaxID, "", "a", FALSE)}
        /\ GetValue(rows, MaxID) = <<NoError, {Todo(MaxID, "a", "", TRUE)}>>

\* C2: an Insert (a PUT) of t over an existing row with t.id returns no error,
\* answers 200, and leaves exactly one row with that id, which holds the
\* title, description and completed of t; a key the PUT body omits is stored
\* as the zero value, a key it carries as its value.
C2_UpsertReplaces ==
    \A p \in Procs :
        (Ran(p, "Insert") /\ RowAt(before[p], call[p].id) # {}) =>
            LET t == call[p].todo
                b == req[p].body
            IN /\ req[p].method = "PUT"
               /\ call[p].err = NoError
               /\ resp[p].status = 200
               /\ Cardinality(RowAt(rows, t.id)) = 1
               /\ TodosAt(rows, t.id) = {t}
               /\ \A r \in RowAt(rows, t.id) :
                     /\ b.title.t = "absent" => r.title = ""
                     /\ b.title.t = "string" => r.title = b.title.s
                     /\ b.description.t = "absent" => r.description = ""
                     /\ b.description.t = "string" => r.description = b.description.s
                     /\ b.completed.t = "absent" => r.completed = 0
                     /\ b.completed.t = "boolean" => r.completed = BindBool(b.completed.b)

C2_Witness ==
    \E p \in Procs :
        /\ Returned(p, "Insert")
        /\ req[p].body = Obj(JNum(2 * MaxID), JAbsent, JStr("a"), JAbsent)
        /\ TodosAt(before[p], MaxID) = {Todo(MaxID, "a", "", TRUE)}
        /\ TodosAt(rows, MaxID) = {Todo(MaxID, "", "a", FALSE)}

\* C3: in every reachable state Get(id) fails with ErrNotFound{id} and no Todo
\* exactly when no row with that id is stored (so for every id on the fresh
\* store); a row with the id is stored exactly when the id was inserted and
\* not deleted since; and the handler's Get call fails with ErrNotFound{id}
\* exactly when it found no row.
C3_NotFoundIffAbsent ==
    /\ \A i \in IDs :
          /\ GetValue(rows, i) = <<ErrNotFound(i), {}>> <=> RowAt(rows, i) = {}
          /\ RowAt(rows, i) # {} => Get(rows, "live", i).err = NoError
    /\ \A p \in Procs : Done(p) =>
          \A i \in IDs :
              RowAt(rows, i) = {} <=>
                  IF Returned(p, "Insert") /\ call[p].id = i THEN FALSE
                  ELSE IF Returned(p, "Delete") /\ call[p].id = i THEN TRUE
                  ELSE RowAt(before[p], i) = {}
    /\ \A p \in Procs : Ran(p, "Get") =>
          (call[p].err = ErrNotFound(call[p].id) <=> RowAt(before[p], call[p].id) = {})

C3_Witness ==
    \E p \in Procs :
        /\ Ran(p, "Get")
        /\ call[p].id = MaxID
        /\ call[p].err = ErrNotFound(MaxID)
        /\ rows # {}
        /\ RowAt(rows, MaxID) = {}

\* C4: a DELETE with a parsable path id whose statement runs returns no error
\* and answers 200 with an empty body, whether or not the row existed; Get of
\* that id then fails with ErrNotFound, and an id with no row stays without
\* one (GET answers 404) unless the request is an Insert of that id.
C4_DeleteIdempotent ==
    \A p \in Procs :
        /\ (Done(p) /\ req[p].method = "DELETE" /\ req[p].rawID \in GoodRawIDs) =>
              call[p].method = "Delete" /\ ToString(call[p].id) = req[p].rawID
        /\ Ran(p, "Delete") =>
              /\ call[p].err = NoError
              /\ resp[p].status = 200
              /\ resp[p].body.kind = "empty"
              /\ GetValue(rows, call[p].id) = <<ErrNotFound(call[p].id), {}>>
        /\ Done(p) =>
              \A i \in IDs :
                 (RowAt(before[p], i) = {} /\ ~(Returned(p, "Insert") /\ call[p].id = i)) =>
                     /\ GetValue(rows, i) = <<ErrNotFound(i), {}>>
                     /\ (Ran(p, "Get") /\ call[p].id = i) => resp[p].status = 404

C4_Witness ==
    \E p \in Procs :
        /\ Returned(p, "Delete")
        /\ RowAt(before[p], call[p].id) = {}
        /\ before[p] # {}
        /\ resp[p].status = 200

\* a PATCH request whose Content-Type is application/json, whose path id
\* parses, and whose body is a JSON object
PatchWithObject(p) ==
    /\ Done(p)
    /\ req[p].method = "PATCH"
    /\ req[p].contentType = valueContentTypeJSON
    /\ req[p].rawID \in GoodRawIDs
    /\ req[p].body.wellFormed

\* C5: a PATCH answered 200 on an existing row (the row of the path id) sets
\* every field whose key is null to its zero value and keeps every field whose
\* key is absent.
C5_PatchNullAbsent ==
    \A p \in Procs :
        (PatchWithObject(p) /\ resp[p].status = 200) =>
            \A q \in RowAt(before[p], Atoi(req[p].rawID).id) :
                \E r \in RowAt(rows, q.id) :
                    LET b == req[p].body
                    IN /\ b.title.t = "null" => r.title = ""
                       /\ b.title.t = "absent" => r.title = q.title
                       /\ b.description.t = "null" => r.description = ""
                       /\ b.description.t = "absent" => r.description = q.description
                       /\ b.completed.t = "null" => r.completed = 0
                       /\ b.completed.t = "absent" => r.completed = q.completed

\* a body key carries a value of the field's type, or is null or absent
WellTyped(v, type) == v.t \in {"absent", "null", type}

\* C6: a PATCH whose body id is the path id and whose title, description and
\* completed keys are absent, null or of the field's type, at least one of
\* them a value, decodes, answers 200 (the statement running) and stores each
\* value it carries in the addressed row.
C6_PatchValues ==
    \A p \in Procs :
        LET b == req[p].body
            i == Atoi(req[p].rawID).id
        IN (/\ PatchWithObject(p)
            /\ b.id = JNum(2 * i)
            /\ WellTyped(b.title, "string")
            /\ WellTyped(b.description, "string")
            /\ WellTyped(b.completed, "boolean")
            /\ "string" \in {b.title.t, b.description.t} \/ b.completed.t = "boolean"
            /\ call[p].err # ErrDriver) =>
               /\ resp[p].status = 200
               /\ call[p].method = "Patch"
               /\ \A q \in RowAt(before[p], i) :
                     \E r \in RowAt(rows, i) :
                         /\ r.title = IF b.title.t = "string" THEN b.title.s
                                      ELSE IF b.title.t = "null" THEN "" ELSE q.title
                         /\ r.description = IF b.description.t = "string" THEN b.description.s
                                            ELSE IF b.description.t = "null" THEN ""
                                            ELSE q.description
                         /\ r.completed = IF b.completed.t = "boolean" THEN BindBool(b.completed.b)
                                          ELSE IF b.completed.t = "null" THEN 0 ELSE q.completed

\* C7: a PATCH that reaches the store with none of the keys title, description
\* and completed in its body fails with ErrNoFieldsToUpdate before any
\* statement is issued, leaves the table unchanged and answers 400 with the
\* text "no fields to update"; a key present with null is a field to update.
C7_NoFieldsToUpdate ==
    \A p \in Procs :
        LET b == req[p].body
            none == b.title.t = "absent" /\ b.description.t = "absent" /\ b.completed.t = "absent"
        IN /\ (PatchWithObject(p) /\ none /\ b.id = JNum(2 * Atoi(req[p].rawID).id)) =>
                 call[p].method = "Patch"
           /\ (Done(p) /\ call[p].method = "Patch" /\ none) =>
                 /\ call[p].err = ErrNoFieldsToUpdate
                 /\ call[p].sql = <<>>
                 /\ rows = before[p]
                 /\ resp[p].status = 400
                 /\ resp[p].body = BodyOf("text", Msg("no fields to update", <<>>), <<>>)
           /\ (Done(p) /\ call[p].method = "Patch" /\ "null" \in {b.title.t, b.description.t, b.completed.t}) =>
                 /\ call[p].err # ErrNoFieldsToUpdate
                 /\ Len(call[p].sql) = 1

C7_Witness ==
    \E p \in Procs :
        /\ Done(p)
        /\ req[p].body = Obj(JNum(2 * MaxID), JAbsent, JAbsent, JAbsent)
        /\ call[p].method = "Patch"
        /\ call[p].err = ErrNoFieldsToUpdate
        /\ resp[p].status = 400
        /\ RowAt(rows, MaxID) # {}

\* C8: a PATCH that passed the id agreement check and carries a field changes
\* exactly the row whose id is the path id, by the fields of the descriptor,
\* and no other row; the id of the UPDATE's WHERE clause is the id that was
\* compared with the path.
C8_PatchTargetsPathRow ==
    \A p \in Procs :
        Returned(p, "Patch") =>
            LET i == Atoi(req[p].rawID).id
                d == call[p].patch
                upd(r) == [r EXCEPT
                             !.title = IF d.Title.isNil THEN @ ELSE d.Title.v,
                             !.description = IF d.Description.isNil THEN @ ELSE d.Description.v,
                             !.completed = IF d.Completed.isNil THEN @ ELSE BindBool(d.Completed.v)]
            IN /\ d.ID = i
               /\ rows = {IF r.id = i THEN upd(r) ELSE r : r \in before[p]}
               /\ call[p].sql[1].arg.t # "null"
               /\ call[p].sql[1].arg.h = 2 * i

\* the handler of p runs in this step
Served(p) == pc[p] # "done" /\ pc'[p] = "done"

IDsOf(tbl) == {r.id : r \in tbl}

\* C9: no PATCH changes the set of stored ids, whatever the other connections
\* do around it; a Patch with at least one field addressed to an id that has
\* no row returns no error, answers 200 and leaves the table as it was, so
\* Get of the id still fails with ErrNotFound.
C9_PatchNeverCreates ==
    [][\A p \in Procs :
          (Served(p) /\ req[p].method = "PATCH") =>
              /\ IDsOf(rows') = IDsOf(rows)
              /\ (/\ call'[p].method = "Patch"
                  /\ SetClause(call'[p].patch) # {}
                  /\ RowAt(rows, call'[p].id) = {}) =>
                     /\ call'[p].err = NoError
                     /\ resp'[p].status = 200
                     /\ rows' = rows
                     /\ GetValue(rows', call'[p].id) = <<ErrNotFound(call'[p].id), {}>>]_vars

\* a Patch of the id MaxID returned on one connection after a Delete on another
\* removed the row, both requests still open
C9_Witness ==
    \E p, q \in Procs :
        /\ Returned(p, "Patch")
        /\ call[p].id = MaxID
        /\ RowAt(before[p], MaxID) = {}
        /\ resp[p].status = 200
        /\ Returned(q, "Delete")
        /\ RowAt(before[q], MaxID) # {}
        /\ RowAt(rows, MaxID) = {}

\* C10: a PATCH whose body has no id key, or a null or non-numeric id, fails
\* to decode: it answers 400 for every path id, /todos/0 included, and the
\* store's Patch is not called, so no UPDATE is issued.
C10_PatchIDRequired ==
    \A p \in Procs :
        (PatchWithObject(p) /\ req[p].body.id.t \in {"absent", "null", "string"}) =>
            /\ resp[p].status = 400
            /\ call[p].method = "none"
            /\ call[p].sql = <<>>

\* the first of the keys title, description, completed of a body that carries
\* a value (neither absent nor null), "" if none does
FirstValueKey(b) ==
    IF b.title.t \notin {"absent", "null"} THEN "title"
    ELSE IF b.description.t \notin {"absent", "null"} THEN "description"
    ELSE IF b.completed.t \notin {"absent", "null"} THEN "completed"
    ELSE ""

\* title or description carries a value that is not a string, or completed a
\* value that is not a boolean
IllTyped(b) ==
    \/ ~WellTyped(b.title, "string")
    \/ ~WellTyped(b.description, "string")
    \/ ~WellTyped(b.completed, "boolean")

\* C11: a PATCH that reaches the decoder with a body whose title or
\* description carries a non-string value, or whose completed carries a
\* non-boolean value, answers 400 with the text of the decode error (the id's
\* error if the id fails first, else the error naming the first key that
\* carries a value), never calls Patch and leaves the table unchanged.
C11_IllTypedRejected ==
    \A p \in Procs :
        LET b == req[p].body
        IN (PatchWithObject(p) /\ IllTyped(b)) =>
              /\ resp[p].status = 400
              /\ resp[p].body.kind = "text"
              /\ resp[p].body.msg =
                    IF b.id.t = "null" THEN Msg("id is required", <<>>)
                    ELSE IF b.id.t \notin {"absent", "number"} THEN Msg("id is not a float64", <<>>)
                    ELSE IF FirstValueKey(b) = "completed" THEN Msg("completed is not a boolean", <<>>)
                    ELSE Msg("%s is not a string", <<FirstValueKey(b)>>)
              /\ call[p].method = "none"
              /\ call[p].sql = <<>>
              /\ rows = before[p]

C11_Witness ==
    \E p \in Procs :
        /\ PatchWithObject(p)
        /\ req[p].body = Obj(JNum(2 * MaxID), JNull, JBool(TRUE), JNull)
        /\ resp[p].status = 400
        /\ resp[p].body.msg = Msg("%s is not a string", <<"description">>)
        /\ call[p].method = "none"
        /\ RowAt(rows, MaxID) # {}

\* a PUT or PATCH request whose Content-Type is application/json and whose
\* path id parses
WriteWithID(p) ==
    /\ Done(p)
    /\ req[p].method \in {"PUT", "PATCH"}
    /\ req[p].contentType = valueContentTypeJSON
    /\ req[p].rawID \in GoodRawIDs

\* the id a body decodes to: into Todo.ID for a PUT, into TodoPatch.ID for a
\* PATCH; ok is FALSE when the body does not decode
DecodedID(r) ==
    IF r.method = "PUT"
    THEN [ok |-> ~DecodeTodo(r.body).err, id |-> DecodeTodo(r.body).todo.id]
    ELSE [ok |-> UnmarshalJSON(r.body).err = NoMsg, id |-> UnmarshalJSON(r.body).patch.ID]

\* C12: a PUT or PATCH on /todos/{p} whose body decodes to an id b other
\* than p answers 400 with the text "id in path 'p' and body 'b' do not
\* match", calls no method of the store and leaves every row, those of p and
\* of b included, as it was; a body id that is an integer literal decodes to
\* that integer.
C12_IDAgreement ==
    \A p \in Procs :
        LET i == Atoi(req[p].rawID).id
            d == DecodedID(req[p])
        IN /\ (WriteWithID(p) /\ d.ok /\ d.id # i) =>
                 /\ resp[p].status = 400
                 /\ resp[p].body =
                       BodyOf("text", Msg("id in path '%d' and body '%d' do not match",
                                          <<req[p].rawID, ToString(d.id)>>), <<>>)
                 /\ call[p].method = "none"
                 /\ call[p].sql = <<>>
                 /\ rows = before[p]
                 /\ RowAt(rows, i) = RowAt(before[p], i)
                 /\ RowAt(rows, d.id) = RowAt(before[p], d.id)
           /\ (WriteWithID(p) /\ d.ok /\ req[p].body.id \in IntIDValues) =>
                 req[p].body.id = JNum(2 * d.id)

\* a PUT on /todos/0 with the body id MaxID, a row stored under MaxID and
\* none under 0
C12_Witness ==
    \E p \in Procs :
        /\ WriteWithID(p)
        /\ req[p].method = "PUT"
        /\ req[p].rawID = "0"
        /\ req[p].body = Obj(JNum(2 * MaxID), JStr("a"), JStr("a"), JBool(TRUE))
        /\ resp[p].status = 400
        /\ RowAt(rows, 0) = {}
        /\ TodosAt(rows, MaxID) = {Todo(MaxID, "", "a", FALSE)}

\* C13: a PUT or PATCH whose Content-Type is not exactly application/json
\* (unset, or with a charset parameter) answers 400 with the text naming the
\* header, the value received and the value expected, calls no method of the
\* store and leaves the table unchanged; a PUT with exactly application/json,
\* a body that decodes and the path's id, its statement running, answers 200
\* with an empty body and the row of the body is stored.
C13_ContentType ==
    \A p \in Procs :
        /\ (/\ Done(p)
            /\ req[p].method \in {"PUT", "PATCH"}
            /\ req[p].contentType # "application/json") =>
               /\ resp[p].status = 400
               /\ resp[p].body =
                     BodyOf("text", Msg("invalid header '%s' value: got '%s', use '%s'",
                                        <<"Content-Type", req[p].contentType, "application/json">>),
                            <<>>)
               /\ call[p].method = "none"
               /\ rows = before[p]
        /\ (/\ WriteWithID(p)
            /\ req[p].method = "PUT"
            /\ DecodedID(req[p]).ok
            /\ DecodedID(req[p]).id = Atoi(req[p].rawID).id
            /\ call[p].err # ErrDriver) =>
               /\ resp[p].status = 200
               /\ resp[p].body.kind = "empty"
               /\ TodosAt(rows, Atoi(req[p].rawID).id) = {DecodeTodo(req[p].body).todo}

\* a PUT with a charset parameter in its Content-Type, refused, its body the
\* one a PUT of the same path stores when the header is exact
C13_Witness ==
    \E p \in Procs :
        /\ Done(p)
        /\ req[p] = Request("PUT", "/todos/{id}", ToString(MaxID), "application/json; charset=utf-8",
                            Obj(JNum(2 * MaxID), JNull, JNull, JNull))
        /\ resp[p].status = 400
        /\ rows = before[p]
        /\ RowAt(rows, MaxID) = {}

\* C14: GET /todos/{id} with a parsable id, the query running, answers 404
\* with the plain text "todo 'id' not found" naming the requested id when no
\* row has the id, and 200 with the JSON object of the row's current values
\* when one has; it changes no row.
C14_GetOne ==
    \A p \in Procs :
        (/\ Done(p)
         /\ req[p].method = "GET"
         /\ req[p].pattern = "/todos/{id}"
         /\ req[p].rawID \in GoodRawIDs
         /\ call[p].err # ErrDriver) =>
            LET i == Atoi(req[p].rawID).id
            IN /\ rows = before[p]
               /\ RowAt(rows, i) = {} =>
                     /\ resp[p].status = 404
                     /\ resp[p].contentType = "text/plain; charset=utf-8"
                     /\ resp[p].body =
                           BodyOf("text", Msg("todo '%d' not found", <<req[p].rawID>>), <<>>)
               /\ RowAt(rows, i) # {} =>
                     /\ resp[p].status = 200
                     /\ resp[p].contentType = "application/json"
                     /\ resp[p].body.kind = "object"
                     /\ {resp[p].body.data[1]} = TodosAt(rows, i)

\* a GET of the id MaxID answered 404 while another row is stored
C14_Witness ==
    \E p \in Procs :
        /\ Done(p)
        /\ req[p].method = "GET"
        /\ req[p].rawID = ToString(MaxID)
        /\ resp[p].status = 404
        /\ resp[p].body.msg = Msg("todo '%d' not found", <<ToString(MaxID)>>)
        /\ RowAt(rows, 0) # {}

\* C15: GetAll on a table without rows returns, without error, an empty
\* slice that is not nil, and GET /todos then answers 200 with the empty JSON
\* array, not with null.
C15_EmptyNotNull ==
    \A p \in Procs :
        (Returned(p, "GetAll") /\ before[p] = {}) =>
            /\ GetAll(before[p], "live").err = NoError
            /\ GetAll(before[p], "live").todos = <<>>
            /\ ~GetAll(before[p], "live").isNil
            /\ resp[p].status = 200
            /\ resp[p].body.kind = "array"
            /\ resp[p].body.data = <<>>

\* C16: in every reachable state GetAll returns one entry per stored id and
\* no two entries with the same id, the entries being the Todos of the
\* current rows; the stored ids are those of before the request, plus the
\* id of a returned Insert, less the id of a returned Delete (a Patch adds
\* and removes none); GET /todos answers with these entries and changes no
\* row.
C16_GetAllExact ==
    LET s == GetAll(rows, "live").todos
    IN /\ GetAll(rows, "live").err = NoError
       /\ Len(s) = Cardinality(IDsOf(rows))
       /\ Cardinality(rows) = Cardinality(IDsOf(rows))
       /\ \A k, l \in 1..Len(s) : s[k].id = s[l].id => k = l
       /\ {s[k] : k \in 1..Len(s)} = UNION {TodosAt(rows, i) : i \in IDsOf(rows)}
       /\ \A p \in Procs : Done(p) =>
             IDsOf(rows) = IF Returned(p, "Insert") THEN IDsOf(before[p]) \cup {call[p].id}
                           ELSE IF Returned(p, "Delete") THEN IDsOf(before[p]) \ {call[p].id}
                           ELSE IDsOf(before[p])
       /\ \A p \in Procs : Returned(p, "GetAll") =>
             /\ rows = before[p]
             /\ resp[p].status = 200
             /\ resp[p].body.data = s

\* GET /todos answered with two entries, the ids 0 and MaxID stored
C16_Witness ==
    \E p \in Procs :
        /\ Returned(p, "GetAll")
        /\ Len(resp[p].body.data) = 2
        /\ IDsOf(rows) = {0, MaxID}

\* C17: every response with status 200 to a request on a /todos route (GET
\* /todos, GET, PUT, PATCH and DELETE /todos/{id}) carries the header
\* X-Request-ID with the value the generator produced for the request.
C17_RequestIDHeader ==
    \A p \in Procs :
        (Done(p) /\ Routed(req[p]) /\ resp[p].status = 200) =>
            /\ reqID[p] \in GenIDs
            /\ resp[p].xRequestID = reqID[p]

\* the requests that succeed on every table when their statement runs: a PUT
\* with a body that decodes to its path id, a DELETE and a GET /todos
WellFormedRequests ==
    {r \in Requests :
        \/ r.method = "GET" /\ r.pattern = "/todos"
        \/ r.method = "DELETE" /\ r.rawID \in GoodRawIDs
        \/ /\ r.method = "PUT"
           /\ r.contentType = valueContentTypeJSON
           /\ r.rawID \in GoodRawIDs
           /\ DecodedID(r).ok
           /\ DecodedID(r).id = Atoi(r.rawID).id}

\* C18: a request answered 400, 404 or 500 leaves the table as it found it
\* and has called the store at most once; the table being all that one
\* request hands to the next (Serve reads rows alone), the requests after it
\* are served as if it had not been made.  And whenever the connection is
\* ready for its next request, whatever was answered before, each well-formed
\* request whose statement runs is answered 200.
C18_FailureIsolation ==
    /\ \A p \in Procs :
          (Done(p) /\ resp[p].status \in {400, 404, 500}) =>
              /\ rows = before[p]
              /\ Len(call[p].sql) <= 1
    /\ (\A p \in Procs : pc[p] = "idle") =>
          \A r \in WellFormedRequests :
              ServeHTTP(rows, r, "r1", "live").resp.status = 200

\* a PUT over an existing row failed with 500 and the row is as it was
C18_Witness ==
    \E p \in Procs :
        /\ Done(p)
        /\ req[p].method = "PUT"
        /\ resp[p].status = 500
        /\ call[p].todo = Todo(MaxID, "a", "a", TRUE)
        /\ TodosAt(rows, MaxID) = {Todo(MaxID, "", "", FALSE)}

\* C19: when a handler called the store, a nil error is answered 200,
\* ErrNotFound (from Get alone) 404, ErrNoFieldsToUpdate (from Patch alone)
\* 400, and every other error, on every route, 500 with the text "Internal
\* Server Error" and an ERROR log entry that holds the error, the method and
\* path, and the request's correlation id; nothing else is answered 404 or
\* 500, and nothing else is logged as an error.
C19_ErrorClassification ==
    \A p \in Procs :
        Done(p) =>
            LET e == call[p].err
                errors == {k \in 1..Len(log[p]) : log[p][k].level = "ERROR"}
            IN /\ resp[p].status = 404 <=> (call[p].method = "Get" /\ e = ErrNotFound(call[p].id))
               /\ e.type = "ErrNotFound" => call[p].method = "Get"
               /\ e = ErrNoFieldsToUpdate => call[p].method = "Patch" /\ resp[p].status = 400
               /\ (call[p].method # "none" /\ resp[p].status = 400) => e = ErrNoFieldsToUpdate
               /\ (call[p].method # "none" /\ e = NoError) => resp[p].status = 200
               /\ resp[p].status = 500 <=>
                     (call[p].method # "none"
                        /\ e \notin {NoError, ErrNoFieldsToUpdate, ErrNotFound(call[p].id)})
               /\ resp[p].status = 500 =>
                     /\ resp[p].body = BodyOf("text", Msg("Internal Server Error", <<>>), <<>>)
                     /\ errors = {Len(log[p])}
                     /\ log[p][Len(log[p])] =
                           [level |-> "ERROR", msg |-> Msg("Internal Server Error", <<>>),
                            method |-> req[p].method, path |-> URLPath(req[p]),
                            requestID |-> reqID[p], err |-> e]
                     /\ reqID[p] \in GenIDs
               /\ resp[p].status # 500 => errors = {}

\* a PATCH whose UPDATE failed in the driver, answered 500 and logged
C19_Witness ==
    \E p \in Procs :
        /\ Done(p)
        /\ req[p].method = "PATCH"
        /\ call[p].method = "Patch"
        /\ call[p].err = ErrDriver
        /\ resp[p].status = 500
        /\ Len(log[p]) = 2
        /\ log[p][2].requestID = reqID[p]

\* a request on /todos/{id} whose path value does not parse as an integer
BadPathID(p) ==
    /\ Done(p)
    /\ req[p].pattern = "/todos/{id}"
    /\ req[p].method \in {"GET", "PUT", "PATCH", "DELETE"}
    /\ req[p].rawID \notin GoodRawIDs

\* the response to a path value that does not parse, the store not called
InvalidIDAnswer(p) ==
    /\ resp[p].status = 400
    /\ resp[p].body = BodyOf("text", Msg("invalid id: '%s'", <<req[p].rawID>>), <<>>)
    /\ call[p].method = "none"
    /\ call[p].sql = <<>>
    /\ rows = before[p]

\* C20 as stated: every GET, PUT, PATCH and DELETE on /todos/{id} whose path
\* value does not parse answers 400 with the text "invalid id: 'raw'" and
\* does not call the store.
C20_InvalidPathID ==
    \A p \in Procs : BadPathID(p) => InvalidIDAnswer(p)

\* C20, amended: a GET or DELETE, and a PUT or PATCH whose Content-Type is
\* application/json, on /todos/{id} with a path value that does not parse
\* answers 400 with the text "invalid id: 'raw'" and does not call the store;
\* a PUT or PATCH with another Content-Type answers 400 with the text about
\* the header, the store not called either.
C20_InvalidPathIDAfterHeader ==
    \A p \in Procs :
        BadPathID(p) =>
            IF req[p].method \in {"PUT", "PATCH"} /\ req[p].contentType # "application/json"
            THEN /\ resp[p].status = 400
                 /\ resp[p].body.msg.fmt = "invalid header '%s' value: got '%s', use '%s'"
                 /\ call[p].method = "none"
                 /\ rows = before[p]
            ELSE InvalidIDAnswer(p)

\* a PATCH of /todos/x with the Content-Type application/json, refused for
\* its path value, rows stored
C20_Witness ==
    \E p \in Procs :
        /\ BadPathID(p)
        /\ req[p].method = "PATCH"
        /\ req[p].contentType = "application/json"
        /\ InvalidIDAnswer(p)
        /\ rows # {}

\* C21: GET /health answers 200 with an empty body whatever the table holds
\* and whatever the request's context; the generator is not invoked for it
\* (no correlation id in its context), nothing is logged, the store is not
\* called and no row changes.
C21_Health ==
    /\ \A p \in Procs :
          (Done(p) /\ req[p].pattern = "/health") =>
              /\ resp[p].status = 200
              /\ resp[p].body = BodyOf("empty", NoMsg, <<>>)
              /\ reqID[p] \notin GenIDs
              /\ resp[p].xRequestID \notin GenIDs
              /\ log[p] = <<>>
              /\ call[p].method = "none"
              /\ call[p].sql = <<>>
              /\ rows = before[p]
    /\ \A c \in Ctxs, g \in GenIDs :
          LET o == ServeHTTP(rows, Request("GET", "/health", "", "", MalformedBody), g, c)
          IN o.resp.status = 200 /\ o.table = rows /\ o.log = <<>>

\* GET /health answered while rows are stored
C21_Witness ==
    \E p \in Procs :
        /\ Done(p)
        /\ req[p].pattern = "/health"
        /\ resp[p].status = 200
        /\ IDsOf(rows) = IDs

C23_WriteAtomicity ==
    /\ [][\A p \in Procs :
             Served(p) =>
                 LET i == Atoi(req[p].rawID).id
                 IN /\ req[p].method = "PUT" =>
                          /\ resp'[p].status = 200
                          /\ Cardinality(RowAt(rows', i)) = 1
                          /\ TodosAt(rows', i) = {DecodeTodo(req[p].body).todo}
                    /\ req[p].method = "GET" =>
                          /\ rows' = rows
                          /\ RowAt(rows, i) = {} => resp'[p].status = 404
                          /\ RowAt(rows, i) # {} =>
                                /\ resp'[p].status = 200
                                /\ {resp'[p].body.data[1]} = TodosAt(rows, i)]_vars
    /\ []((\A p \in Procs : Done(p) /\ req[p].method = "PUT") =>
             \E p \in Procs : TodosAt(rows, MaxID) = {call[p].todo})

\* two PUTs of the id MaxID with different bodies, the second over the row
\* of the first
C23_Witness ==
    \E p, q \in Procs :
        /\ Returned(p, "Insert")
        /\ Returned(q, "Insert")
        /\ call[p].todo # call[q].todo
        /\ TodosAt(before[q], MaxID) = {call[p].todo}
        /\ TodosAt(rows, MaxID) = {call[q].todo}

\* the request of p is in flight on a /todos route
InFlight(p) == pc[p] # "idle" /\ Routed(req[p])

\* the correlation ids a request shows: those of its log entries and that of
\* its X-Request-ID response header, where set
ShownIDs(p) ==
    {log[p][k].requestID : k \in 1..Len(log[p])}
        \cup (IF resp[p].xRequestID = NoHeader THEN {} ELSE {resp[p].xRequestID})

\* C24: with requests in flight on every connection, the log entries of a
\* request and its X-Request-ID header, where set, carry the id generated
\* for that request; when two requests in flight were given distinct ids,
\* neither shows the id of the other; and the handler of one request changes
\* neither the id nor the log nor the response of another.
C24_RequestScopedIDs ==
    /\ [](\A p \in Procs :
             InFlight(p) =>
                 /\ ShownIDs(p) = {reqID[p]}
                 /\ \A q \in Procs \ {p} :
                       (InFlight(q) /\ reqID[q] # reqID[p]) => reqID[q] \notin ShownIDs(p))
    /\ [][\A p, q \in Procs :
             (p # q /\ Served(q)) =>
                 /\ reqID'[p] = reqID[p]
                 /\ log'[p] = log[p]
                 /\ resp'[p] = resp[p]]_vars

\* two GETs answered, each with the id generated for it
C24_Witness ==
    \E p, q \in Procs :
        /\ Done(p) /\ Done(q)
        /\ reqID[p] = "r1" /\ reqID[q] = "r2"
        /\ resp[p].status = 200 /\ resp[p].xRequestID = "r1"
        /\ resp[q].status = 200 /\ resp[q].xRequestID = "r2"
        /\ ShownIDs(p) = {"r1"}
        /\ ShownIDs(q) = {"r2"}

\* C25: a request is answered once, with 200, 400, 404 or 500; it issues at
\* most one statement, and none when one of the handler's checks fails or
\* when Patch finds no field to update; a statement that fails is issued
\* once, changes no row, and is answered with one 500 and logged once.
C25_NoRetry ==
    \A p \in Procs :
        Done(p) =>
            /\ resp[p].status \in {200, 400, 404, 500}
            /\ Len(call[p].sql) <= 1
            /\ call[p].method = "none" => call[p].sql = <<>>
            /\ resp[p].status = 400 => call[p].sql = <<>>
            /\ (resp[p].status = 400 /\ call[p].err # ErrNoFieldsToUpdate) => call[p].method = "none"
            /\ (call[p].method # "none" /\ call[p].err # ErrNoFieldsToUpdate) => Len(call[p].sql) = 1
            /\ call[p].err = ErrDriver =>
                  /\ Len(call[p].sql) = 1
                  /\ rows = before[p]
                  /\ resp[p].status = 500
                  /\ Cardinality({k \in 1..Len(log[p]) : log[p][k].level = "ERROR"}) = 1

\* a DELETE of a stored row whose statement failed: one statement, one 500,
\* the row still stored
C25_Witness ==
    \E p \in Procs :
        /\ Done(p)
        /\ call[p].method = "Delete"
        /\ call[p].err = ErrDriver
        /\ Len(call[p].sql) = 1
        /\ resp[p].status = 500
        /\ RowAt(rows, call[p].id) # {}

\* C26: a PATCH body whose id is a number with a fractional part (and whose
\* other keys decode) decodes without error, the descriptor's ID being the
\* number truncated toward zero; when that is the path id the agreement check
\* passes and Patch is called (1.5 on /todos/1, -0.5 on /todos/0), otherwise
\* the request is answered 400 with the mismatch text naming the truncated
\* value.
C26_FractionalID ==
    \A p \in Procs :
        LET b == req[p].body
            h == b.id.h
            trunc == IF h > 0 THEN (h - 1) \div 2 ELSE (h + 1) \div 2
            i == Atoi(req[p].rawID).id
        IN (/\ PatchWithObject(p)
            /\ b.id.t = "number"
            /\ h % 2 = 1
            /\ FirstValueKey(b) = "") =>
               /\ UnmarshalJSON(b).err = NoMsg
               /\ UnmarshalJSON(b).patch.ID = trunc
               /\ trunc = i =>
                     /\ call[p].method = "Patch"
                     /\ call[p].patch.ID = i
                     /\ resp[p].status \in {200, 500}
                           \/ (resp[p].status = 400 /\ call[p].err = ErrNoFieldsToUpdate)
               /\ trunc # i =>
                     /\ call[p].method = "none"
                     /\ resp[p].status = 400
                     /\ resp[p].body =
                           BodyOf("text", Msg("id in path '%d' and body '%d' do not match",
                                              <<req[p].rawID, ToString(trunc)>>), <<>>)

\* a PATCH of /todos/MaxID with the body id MaxID and a half, accepted
C26_Witness ==
    \E p \in Procs :
        /\ PatchWithObject(p)
        /\ req[p].rawID = ToString(MaxID)
        /\ req[p].body.id = JNum(2 * MaxID + 1)
        /\ call[p].method = "Patch"
        /\ call[p].patch.ID = MaxID
        /\ resp[p].status = 200

\* C27: a PUT, PATCH or DELETE on /todos/{i} leaves every row with an id
\* other than i as it was, in all fields, whatever its body and its outcome;
\* GET /todos, GET /todos/{id} and GET /health, and every request whose path
\* id does not parse, leave all rows as they were.
C27_Frame ==
    \A p \in Procs :
        Done(p) =>
            /\ (req[p].method \in {"PUT", "PATCH", "DELETE"} /\ req[p].rawID \in GoodRawIDs) =>
                  {r \in rows : r.id # Atoi(req[p].rawID).id}
                      = {r \in before[p] : r.id # Atoi(req[p].rawID).id}
            /\ (req[p].method = "GET" \/ req[p].rawID \notin GoodRawIDs) => rows = before[p]

\* a PATCH that changed the row of MaxID and left the row of 0
C27_Witness ==
    \E p \in Procs :
        /\ Returned(p, "Patch")
        /\ req[p].rawID = ToString(MaxID)
        /\ RowAt(rows, MaxID) # RowAt(before[p], MaxID)
        /\ RowAt(rows, 0) # {}
        /\ RowAt(rows, 0) = RowAt(before[p], 0)

\* the first check a PUT or PATCH request fails, of the Content-Type, the
\* path id, the decoding of the body and the agreement of the ids, in that
\* order; "none" when it passes all four
FirstViolation(r) ==
    IF r.contentType # "application/json" THEN "content-type"
    ELSE IF r.rawID \notin GoodRawIDs THEN "path id"
    ELSE IF ~DecodedID(r).ok THEN "decode"
    ELSE IF DecodedID(r).id # Atoi(r.rawID).id THEN "agreement"
    ELSE "none"

\* C28: a PUT or PATCH is answered 400 with the text of the first check it
\* fails, in the order Content-Type, path id, body decoding, id agreement,
\* whatever later checks it would fail too, and the store is called exactly
\* when it fails none.
C28_ValidationOrder ==
    \A p \in Procs :
        (Done(p) /\ req[p].method \in {"PUT", "PATCH"}) =>
            LET v == FirstViolation(req[p])
                m == resp[p].body.msg
            IN /\ v # "none" => resp[p].status = 400 /\ resp[p].body.kind = "text"
               /\ v = "content-type" =>
                     m = Msg("invalid header '%s' value: got '%s', use '%s'",
                             <<"Content-Type", req[p].contentType, "application/json">>)
               /\ v = "path id" => m = Msg("invalid id: '%s'", <<req[p].rawID>>)
               /\ v = "decode" =>
                     m = IF req[p].method = "PUT" THEN Msg("failed to decode todo body", <<>>)
                         ELSE UnmarshalJSON(req[p].body).err
               /\ v = "agreement" =>
                     m = Msg("id in path '%d' and body '%d' do not match",
                             <<req[p].rawID, ToString(DecodedID(req[p]).id)>>)
               /\ call[p].method # "none" <=> v = "none"
               /\ v = "none" => call[p].method = (IF req[p].method = "PUT" THEN "Insert" ELSE "Patch")

\* a PATCH that fails the Content-Type check, the path id parse and the
\* decoding, answered for its Content-Type
C28_Witness ==
    \E p \in Procs :
        /\ Done(p)
        /\ req[p] = Request("PATCH", "/todos/{id}", "x", "", MalformedBody)
        /\ resp[p].status = 400
        /\ resp[p].body.msg.fmt = "invalid header '%s' value: got '%s', use '%s'"
        /\ call[p].method = "none"

\* the keys of title, description, completed that a body sets (to null, the
\* one value the decoder takes)
NullKeys(r) == {k \in {"title", "description", "completed"} : r.body[k].t = "null"}

\* a PATCH answered 200
Accepted(p) == Done(p) /\ req[p].method = "PATCH" /\ resp[p].status = 200

\* the table with the fields keys of the row i reset to their zero values
ResetOf(tbl, i, keys) ==
    {IF r.id = i
     THEN [r EXCEPT !.title = IF "title" \in keys THEN "" ELSE @,
                    !.description = IF "description" \in keys THEN "" ELSE @,
                    !.completed = IF "completed" \in keys THEN 0 ELSE @]
     ELSE r : r \in tbl}

\* C29: when a PATCH on an existing row is answered 200 while another PATCH
\* on the same row, setting disjoint fields and answered 200, is still in
\* flight and the table is as that one left it, the row then holds the
\* changes of both and every field neither sets is as it was.
C29_NoLostUpdate ==
    [][\A p, q \in Procs :
        LET i == Atoi(req[p].rawID).id
        IN (/\ p # q
            /\ Accepted(p)
            /\ Served(q) /\ Accepted(q)'
            /\ req[p].rawID = req[q].rawID
            /\ NullKeys(req[p]) \cap NullKeys(req[q]) = {}
            /\ RowAt(before[p], i) # {}
            /\ rows = ResetOf(before[p], i, NullKeys(req[p]))) =>
               rows' = ResetOf(before[p], i, NullKeys(req[p]) \cup NullKeys(req[q]))]_vars

\* a write whose second issue the claim of idempotence is about: a PUT or a
\* PATCH answered 200, or a DELETE the store did not fail
Reissued(p) ==
    /\ Done(p)
    /\ \/ req[p].method \in {"PUT", "PATCH"} /\ resp[p].status = 200
       \/ req[p].method = "DELETE" /\ resp[p].status # 500

\* C30: the same accepted PUT, the same accepted PATCH or the same DELETE,
\* issued again right after its first issue, leaves the table as the first
\* issue left it and is answered with the status of the first.
C30_Idempotence ==
    \A p \in Procs : Reissued(p) =>
        \A g \in GenIDs :
            LET o == ServeHTTP(rows, req[p], g, "live")
            IN /\ o.table = rows
               /\ o.resp.status = resp[p].status

\* a PUT answered 200 that replaced a stored row by a different one
C30_Witness ==
    \E p \in Procs :
        /\ Reissued(p) /\ resp[p].status = 200
        /\ req[p].method = "PUT"
        /\ RowAt(before[p], Atoi(req[p].rawID).id) # {}
        /\ rows # before[p]

====
